---- MODULE Spec2Model ----
(***************************************************************************)
(* Model of skillNetworkCreation.py: the run of main() over a tabular      *)
(* file of (job type, skill, region) rows.                                 *)
(*                                                                         *)
(*   read_csv -> parse_skill_data -> create_weighted_skill_graph           *)
(*            -> get_regional_insights -> user_interface                   *)
(*                                                                         *)
(* A data frame is a sequence of rows; a row is a function from the        *)
(* frame's column names to cell values.  Skill identifiers are the         *)
(* naturals 1..n ranked as Python ranks the identifier strings (only <     *)
(* and = are ever applied to them).  A missing cell is NaN.  Element ID    *)
(* cells are always present (groupby would drop a row whose key is NaN).   *)
(* Dictionaries keep insertion order, so they are sequences of entries.    *)
(***************************************************************************)
EXTENDS Integers, Sequences, FiniteSets, TLC

\* ----------------------------------------------------------------- bounds
\* Rows of a frame that holds only the two required columns.
MaxRecords == 5
\* Rows of a frame that also holds optional columns (or lacks a required one).
MaxRegionRecords == 3
\* Skill identifiers of the wide files explored by SpecWide.
WideSkills == 12

\* user_interface keeps sorted_neighbors[:10]
TopK == 10

\* The cell values of the files explored by Spec.
JobIds == {1, 2}
SkillIds == {1, 2, 3}
RegionNames == {"east", "west"}
\* The only value a JobType cell takes, when a file carries that column.
JobTypeCells == {1}

NaN == "NaN"
None == "None"

RequiredColumns == {"Element ID", "Element Name"}
\* The column sets of the files read: the documented ones, one that also
\* carries a JobType column, and one that lacks Element ID.
ColumnSets ==
    { RequiredColumns,
      RequiredColumns \cup {"Region"},
      RequiredColumns \cup {"Region", "JobType"},
      {"Element Name"} }

VARIABLES
    columns,        \* df.columns
    records,        \* the rows of df, in file order
    pc,             \* where main() is
    todo,           \* group keys the groupby loop has not reached yet
    co_occurrence,  \* defaultdict(int), in insertion order: <<[pair, n], ...>>
    G,              \* nx.Graph: [node: skill -> attributes, adj: skill -> neighbours]
    cursor,         \* position of the edge loop in co_occurrence.items()
    insights,       \* what get_regional_insights returned
    exc,            \* the exception that ended main(), or "none"
    skill_id,       \* what the user typed
    top_neighbors,  \* user_interface's local top_neighbors
    printed         \* the lines user_interface printed

vars == << columns, records, pc, todo, co_occurrence, G, cursor, insights,
           exc, skill_id, top_neighbors, printed >>

\* --------------------------------------------------------- pandas helpers
Min(a, b) == IF a < b THEN a ELSE b

\* df[col] : the cells of one column, in row order
Column(df, col) == [i \in 1..Len(df) |-> df[i][col]]

\* df[df[col] == v] : the rows whose cell equals v, in row order
RowsWhere(df, col, v) ==
    LET Test(r) == r[col] = v IN SelectSeq(df, Test)

\* Series.unique(): the distinct values in order of first appearance
Unique(seq) ==
    LET first == { i \in 1..Len(seq) : \A j \in 1..(i - 1) : seq[j] # seq[i] }
    IN  [ k \in 1..Cardinality(first) |->
            seq[CHOOSE i \in first : Cardinality({ j \in first : j < i }) = k - 1] ]

RECURSIVE SortedSeq(_)
SortedSeq(S) ==
    IF S = {} THEN << >>
    ELSE LET m == CHOOSE x \in S : \A y \in S : x <= y
         IN  << m >> \o SortedSeq(S \ {m})

\* df.groupby('Element ID') iterates the groups in sorted key order
GroupKeys(df) == SortedSeq({ df[i]["Element ID"] : i \in 1..Len(df) })

\* --------------------------------------------------- co-occurrence counts
\* Mutant of GroupSkills: the group's skill column without unique()
GroupSkillsRaw(df, key) ==
    Column(RowsWhere(df, "Element ID", key), "Element Name")

\* skills = group['Element Name'].unique()
GroupSkills(df, key) ==
    Unique(Column(RowsWhere(df, "Element ID", key), "Element Name"))

\* Mutant of PairKey: the pair as enumerated, not sorted
PairKeyUnsorted(a, b) == << a, b >>

\* pair = tuple(sorted((skills[i], skills[j])))
PairKey(a, b) == IF b < a THEN << b, a >> ELSE << a, b >>

\* Mutant of InnerStart: range(i, len(skills))
InnerStartSame(i) == i

\* for j in range(i+1, len(skills))
InnerStart(i) == i + 1

\* the pairs of the two nested loops, in loop order
RECURSIVE PairsFrom(_, _)
PairsFrom(skills, i) ==
    IF i > Len(skills) THEN << >>
    ELSE LET row == [ k \in 1..(Len(skills) - InnerStart(i) + 1) |->
                        PairKey(skills[i], skills[InnerStart(i) + k - 1]) ]
         IN  row \o PairsFrom(skills, i + 1)

\* co_occurrence[pair] += 1 for each pair of a run, in order: a key that is
\* already there is counted up in place, a new key is appended (with the
\* default 0 counted up) where its first increment falls
IncrementAll(co, pairs) ==
    LET Times(p) == Cardinality({ i \in 1..Len(pairs) : pairs[i] = p })
        IsNew(p) == \A i \in 1..Len(co) : co[i].pair # p
        fresh    == Unique(SelectSeq(pairs, IsNew))
    IN  [ i \in 1..Len(co) |-> [pair |-> co[i].pair, n |-> co[i].n + Times(co[i].pair)] ]
        \o [ k \in 1..Len(fresh) |-> [pair |-> fresh[k], n |-> Times(fresh[k])] ]

\* one pass of the body of `for job_type, group in grouped`
GroupStep(co, df, key) == IncrementAll(co, PairsFrom(GroupSkills(df, key), 1))

\* the whole groupby loop, over the group keys in the order given
RECURSIVE CountGroups(_, _, _)
CountGroups(co, df, keys) ==
    IF Len(keys) = 0 THEN co
    ELSE CountGroups(GroupStep(co, df, Head(keys)), df, Tail(keys))

\* ------------------------------------------------------------ the graph
EmptyGraph == [node |-> << >>, adj |-> << >>]

\* dict.update on a node's attribute dictionary (a set of <<key, value>>)
UpdateAttrs(old, new) ==
    new \cup { p \in old : \A q \in new : q[1] # p[1] }

\* Graph.add_node(n, **attrs)
AddNode(g, n, attrs) ==
    IF n \in DOMAIN g.node
    THEN [g EXCEPT !.node = [ x \in DOMAIN g.node |->
                                IF x = n THEN UpdateAttrs(g.node[x], attrs)
                                ELSE g.node[x] ]]
    ELSE [node |-> (n :> attrs) @@ g.node, adj |-> (n :> << >>) @@ g.adj]

\* adj[u][v] = {'weight': w}: an existing key keeps its place
SetNeighbor(nbrs, v, w) ==
    IF \E i \in 1..Len(nbrs) : nbrs[i].nbr = v
    THEN LET k == CHOOSE i \in 1..Len(nbrs) : nbrs[i].nbr = v
         IN  [nbrs EXCEPT ![k] = [nbr |-> v, weight |-> w]]
    ELSE Append(nbrs, [nbr |-> v, weight |-> w])

\* Graph.add_edge(u, v, weight=w): an endpoint that is no node yet is added
\* without attributes
AddEdge(g, u, v, w) ==
    LET g1 == IF u \in DOMAIN g.node THEN g ELSE AddNode(g, u, {})
        g2 == IF v \in DOMAIN g1.node THEN g1 ELSE AddNode(g1, v, {})
    IN  [ node |-> g2.node,
          adj  |-> [ x \in DOMAIN g2.adj |->
                       IF x = u THEN SetNeighbor(g2.adj[x], v, w)
                       ELSE IF x = v THEN SetNeighbor(g2.adj[x], u, w)
                       ELSE g2.adj[x] ] ]

\* Mutant of UniqueSkills: only the skills that share a job type with another
UniqueSkillsPaired(df) ==
    LET all == Unique(Column(df, "Element Name"))
        Paired(a) == \E i, j \in 1..Len(df) :
                        /\ df[i]["Element Name"] = a
                        /\ df[j]["Element Name"] # a
                        /\ df[i]["Element ID"] = df[j]["Element ID"]
    IN  SelectSeq(all, Paired)

\* unique_skills = df['Element Name'].unique()
UniqueSkills(df) == Unique(Column(df, "Element Name"))

\* regions[0] if regions is not None and len(regions) > 0 else None
SkillRegion(df, cols, skill) ==
    IF "Region" \in cols
    THEN LET regions == Unique(Column(RowsWhere(df, "Element Name", skill), "Region"))
         IN  IF Len(regions) > 0 THEN regions[1] ELSE None
    ELSE None

\* Mutant of AddSkillNodes: a skill without a region value gets no node
RECURSIVE AddSkillNodesWithRegion(_, _, _, _)
AddSkillNodesWithRegion(g, df, cols, skills) ==
    IF Len(skills) = 0 THEN g
    ELSE LET r == SkillRegion(df, cols, Head(skills))
         IN  AddSkillNodesWithRegion(
                 IF r \in {None, NaN} THEN g
                 ELSE AddNode(g, Head(skills), {<< "region", r >>}),
                 df, cols, Tail(skills))

\* for skill in unique_skills: G.add_node(skill, region=...)
RECURSIVE AddSkillNodes(_, _, _, _)
AddSkillNodes(g, df, cols, skills) ==
    IF Len(skills) = 0 THEN g
    ELSE AddSkillNodes(
             AddNode(g, Head(skills), {<< "region", SkillRegion(df, cols, Head(skills)) >>}),
             df, cols, Tail(skills))

\* ------------------------------------------------------ regional insights
RegionalInsights(df, cols) ==
    IF "Region" \in cols
    THEN IF "JobType" \in cols
         THEN [ exc |-> "none", kind |-> "counts",
                counts |->
                  { << r, Cardinality({ df[i]["JobType"] :
                                          i \in { k \in 1..Len(df) : df[k]["Region"] = r } }) >> :
                      r \in { df[i]["Region"] : i \in 1..Len(df) } \ {NaN} } ]
         ELSE [ exc |-> "KeyError", kind |-> "unset", counts |-> {} ]
    ELSE [ exc |-> "none", kind |-> "unavailable", counts |-> {} ]

\* ------------------------------------------------------- user interface
Line(kind, skill, weight) == [kind |-> kind, skill |-> skill, weight |-> weight]

\* Mutant of InsertByWeight: an unstable sort that puts a later equal key first
InsertByWeightUnstable(sorted, item) ==
    LET after == { i \in 1..Len(sorted) : sorted[i].weight > item.weight }
        k     == IF after = {} THEN 0 ELSE CHOOSE i \in after : \A j \in after : j <= i
    IN  SubSeq(sorted, 1, k) \o << item >> \o SubSeq(sorted, k + 1, Len(sorted))

\* sorted(..., key=weight, reverse=True) is stable: equal keys keep their order
InsertByWeight(sorted, item) ==
    LET after == { i \in 1..Len(sorted) : sorted[i].weight >= item.weight }
        k     == IF after = {} THEN 0 ELSE CHOOSE i \in after : \A j \in after : j <= i
    IN  SubSeq(sorted, 1, k) \o << item >> \o SubSeq(sorted, k + 1, Len(sorted))

RECURSIVE SortedNeighbors(_)
SortedNeighbors(nbrs) ==
    IF Len(nbrs) = 0 THEN << >>
    ELSE InsertByWeight(SortedNeighbors(SubSeq(nbrs, 1, Len(nbrs) - 1)), nbrs[Len(nbrs)])

\* Mutant of TopSlice: no cut
TopSliceAll(sorted) == sorted

\* sorted_neighbors[:10]
TopSlice(sorted) == SubSeq(sorted, 1, Min(TopK, Len(sorted)))

\* Mutant of NotFoundOutcome: raise instead of print and return
NotFoundRaises(id) ==
    [ exc |-> "NotFoundError", top |-> << >>, printed |-> << >> ]

\* if skill_id not in G.nodes: print(...); return
NotFoundOutcome(id) ==
    [ exc |-> "none", top |-> << >>, printed |-> << Line("not_found", id, 0) >> ]

UserInterfaceOutcome(g, id) ==
    IF id \notin DOMAIN g.node THEN NotFoundOutcome(id)
    ELSE LET top == TopSlice(SortedNeighbors(g.adj[id]))
         IN  [ exc |-> "none", top |-> top,
               printed |-> << Line("header", id, 0) >>
                           \o [ i \in 1..Len(top) |-> Line("neighbor", top[i].nbr, top[i].weight) ]
                           \o << Line("job_types_placeholder", id, 0) >> ]

\* --------------------------------------------------------------- actions
\* a row of a frame with the columns cols
Row(cols, id, name, region, jobtype) ==
    [ c \in cols |->
        CASE c = "Element ID"   -> id
          [] c = "Element Name" -> name
          [] c = "Region"       -> region
          [] c = "JobType"      -> jobtype ]

Rows(cols) ==
    { Row(cols, id, name, region, jobtype) :
        id \in JobIds, name \in SkillIds,
        region \in RegionNames \cup {NaN}, jobtype \in JobTypeCells }

MaxRows(cols) == IF cols = RequiredColumns THEN MaxRecords ELSE MaxRegionRecords

Init ==
    /\ columns \in ColumnSets
    /\ records = << >>
    /\ pc = "load"
    /\ todo = << >>
    /\ co_occurrence = << >>
    /\ G = EmptyGraph
    /\ cursor = 1
    /\ insights = [kind |-> "unset", counts |-> {}]
    /\ exc = "none"
    /\ skill_id = 0
    /\ top_neighbors = << >>
    /\ printed = << >>

\* pd.read_csv: one more row of the file
ReadRow ==
    /\ pc = "load"
    /\ Len(records) < MaxRows(columns)
    /\ \E r \in Rows(columns) : records' = Append(records, r)
    /\ UNCHANGED << columns, pc, todo, co_occurrence, G, cursor, insights,
                    exc, skill_id, top_neighbors, printed >>

\* parse_skill_data's column check; main() returns when it yields None
ParseSkillData ==
    /\ pc = "load"
    /\ IF \A col \in RequiredColumns : col \in columns
       THEN /\ pc' = "group"
            /\ todo' = GroupKeys(records)
       ELSE /\ pc' = "rejected"
            /\ todo' = todo
    /\ UNCHANGED << columns, records, co_occurrence, G, cursor, insights,
                    exc, skill_id, top_neighbors, printed >>

\* one iteration of the groupby loop
CountGroup ==
    /\ pc = "group"
    /\ Len(todo) > 0
    /\ co_occurrence' = GroupStep(co_occurrence, records, Head(todo))
    /\ todo' = Tail(todo)
    /\ UNCHANGED << columns, records, pc, G, cursor, insights, exc, skill_id,
                    top_neighbors, printed >>

\* the node loop
AddNodes ==
    /\ pc = "group"
    /\ Len(todo) = 0
    /\ G' = AddSkillNodes(G, records, columns, UniqueSkills(records))
    /\ cursor' = 1
    /\ pc' = "edges"
    /\ UNCHANGED << columns, records, todo, co_occurrence, insights, exc,
                    skill_id, top_neighbors, printed >>

\* one iteration of the edge loop
AddEdgeStep ==
    /\ pc = "edges"
    /\ cursor <= Len(co_occurrence)
    /\ G' = AddEdge(G, co_occurrence[cursor].pair[1], co_occurrence[cursor].pair[2],
                    co_occurrence[cursor].n)
    /\ cursor' = cursor + 1
    /\ UNCHANGED << columns, records, pc, todo, co_occurrence, insights, exc,
                    skill_id, top_neighbors, printed >>

\* the graph is returned and main() calls get_regional_insights
GetRegionalInsights ==
    /\ pc = "edges"
    /\ cursor > Len(co_occurrence)
    /\ LET out == RegionalInsights(records, columns)
       IN  /\ insights' = [kind |-> out.kind, counts |-> out.counts]
           /\ exc' = out.exc
           /\ pc' = IF out.exc = "none" THEN "ui" ELSE "crashed"
    /\ UNCHANGED << columns, records, todo, co_occurrence, G, cursor, skill_id,
                    top_neighbors, printed >>

\* the identifiers a user may type: every skill of the file's alphabet and
\* one that is in no file
TypedIds == { records[i]["Element Name"] : i \in 1..Len(records) } \cup SkillIds \cup {0}

UserInterface ==
    /\ pc = "ui"
    /\ \E id \in TypedIds :
         LET out == UserInterfaceOutcome(G, id)
         IN  /\ skill_id' = id
             /\ top_neighbors' = out.top
             /\ printed' = out.printed
             /\ exc' = out.exc
    /\ pc' = "done"
    /\ UNCHANGED << columns, records, todo, co_occurrence, G, cursor, insights >>

Pipeline ==
    \/ ParseSkillData
    \/ CountGroup
    \/ AddNodes
    \/ AddEdgeStep
    \/ GetRegionalInsights
    \/ UserInterface

Next == ReadRow \/ Pipeline

Spec == Init /\ [][Next]_vars

\* ------------------------------------------------------------ wide files
\* Files of up to 2 * WideSkills rows over the skills 1..WideSkills: the rows of
\* job type 1 first, listing the skills in descending order, then the rows of
\* job type 2, listing them in ascending order.
InitWide == Init /\ columns = RequiredColumns

ReadWideRow ==
    /\ pc = "load"
    /\ \E id \in JobIds :
         LET n == Len(RowsWhere(records, "Element ID", id))
         IN  /\ IF Len(records) = 0 THEN TRUE
                ELSE records[Len(records)]["Element ID"] <= id
             /\ n < WideSkills
             /\ records' = Append(records,
                    Row(columns, id, IF id = 1 THEN WideSkills - n ELSE n + 1, NaN, 1))
    /\ UNCHANGED << columns, pc, todo, co_occurrence, G, cursor, insights,
                    exc, skill_id, top_neighbors, printed >>

NextWide == ReadWideRow \/ Pipeline

SpecWide == InitWide /\ [][NextWide]_vars

\* ------------------------------------------------------------ vocabulary
\* create_weighted_skill_graph has returned
GraphBuilt ==
    \/ pc \in {"ui", "done", "crashed"}
    \/ pc = "edges" /\ cursor > Len(co_occurrence)

\* the co-occurrence loop is over
Aggregated == pc = "group" /\ Len(todo) = 0

\* user_interface has run
Queried == pc = "done"

InputSkills == { records[i]["Element Name"] : i \in 1..Len(records) }

\* the element_id groups a skill appears in
GroupsWith(a) ==
    { records[i]["Element ID"] :
        i \in { k \in 1..Len(records) : records[k]["Element Name"] = a } }

SharedGroups(a, b) == GroupsWith(a) \cap GroupsWith(b)

NeighborsOf(g, a) ==
    IF a \in DOMAIN g.adj THEN { g.adj[a][i].nbr : i \in 1..Len(g.adj[a]) } ELSE {}

WeightOf(g, a, b) ==
    LET i == CHOOSE k \in 1..Len(g.adj[a]) : g.adj[a][k].nbr = b IN g.adj[a][i].weight

PositionOf(nbrs, b) == CHOOSE k \in 1..Len(nbrs) : nbrs[k].nbr = b

\* some (element_id, element_name) row is repeated
RepeatedRow ==
    \E i, j \in 1..Len(records) :
        /\ i < j
        /\ records[i]["Element ID"] = records[j]["Element ID"]
        /\ records[i]["Element Name"] = records[j]["Element Name"]

AsMapping(co) == { << co[i].pair, co[i].n >> : i \in 1..Len(co) }

Orderings(S) ==
    { p \in [1..Cardinality(S) -> S] : \A i, j \in 1..Cardinality(S) : p[i] = p[j] => i = j }

\* the frame with rows i and i+1 exchanged
SwapRows(df, i) ==
    [ k \in 1..Len(df) |-> IF k = i THEN df[i + 1] ELSE IF k = i + 1 THEN df[i] ELSE df[k] ]

HasRegionAttr(attrs) == \E p \in attrs : p[1] = "region"

RegionAttr(attrs) == (CHOOSE p \in attrs : p[1] = "region")[2]

\* ----------------------------------------------------------------- claims

\* C1: in the finished graph two skills are joined exactly when they are
\* distinct and share an element_id group, the weight of the edge is the
\* number of distinct groups holding both, each neighbour is listed once and
\* the adjacency is symmetric; rows repeated inside a group change nothing.
C1_WeightCorrect ==
    GraphBuilt =>
        \A a \in InputSkills \cup DOMAIN G.node :
            /\ Len(G.adj[a]) = Cardinality(NeighborsOf(G, a))
            /\ \A b \in InputSkills \cup DOMAIN G.node :
                 /\ b \in NeighborsOf(G, a) <=> (a # b /\ SharedGroups(a, b) # {})
                 /\ b \in NeighborsOf(G, a) =>
                      /\ WeightOf(G, a, b) = Cardinality(SharedGroups(a, b))
                      /\ a \in NeighborsOf(G, b)
                      /\ WeightOf(G, b, a) = WeightOf(G, a, b)

\* C1 witness: a finished graph with an edge of weight 2 built from a file
\* that repeats a row inside one of the two groups.
C1_Witness ==
    /\ GraphBuilt
    /\ RepeatedRow
    /\ \E a \in DOMAIN G.node : \E b \in NeighborsOf(G, a) : WeightOf(G, a, b) = 2

\* C2 (as the code has it): the neighbours printed are entries of the
\* skill's adjacency, in descending weight order; two of equal weight keep
\* the order in which their edges entered the adjacency; none left out
\* weighs more than one printed.
C2_WeightThenInsertion ==
    (Queried /\ skill_id \in DOMAIN G.node) =>
        LET nbrs == G.adj[skill_id]
            top  == top_neighbors
        IN  /\ \A i \in 1..Len(top) : \E k \in 1..Len(nbrs) : nbrs[k] = top[i]
            /\ \A i, j \in 1..Len(top) :
                 i < j =>
                    /\ top[i].weight >= top[j].weight
                    /\ top[i].weight = top[j].weight =>
                         PositionOf(nbrs, top[i].nbr) < PositionOf(nbrs, top[j].nbr)
            /\ \A k \in 1..Len(nbrs) :
                 (\A i \in 1..Len(top) : top[i] # nbrs[k]) =>
                    \A i \in 1..Len(top) : top[i].weight >= nbrs[k].weight

\* C2 witness: a result with a strict descent in weight and with two
\* neighbours of equal weight, the larger identifier first.
C2_Witness ==
    /\ Queried
    /\ skill_id \in DOMAIN G.node
    /\ \E i, j \in 1..Len(top_neighbors) :
         i < j /\ top_neighbors[i].weight > top_neighbors[j].weight
    /\ \E i, j \in 1..Len(top_neighbors) :
         /\ i < j
         /\ top_neighbors[i].weight = top_neighbors[j].weight
         /\ top_neighbors[i].nbr > top_neighbors[j].nbr

\* C2 as claimed: descending weight, and equal weights in ascending
\* identifier order.
C2_TiesAscending ==
    (Queried /\ skill_id \in DOMAIN G.node) =>
        \A i, j \in 1..Len(top_neighbors) :
            i < j =>
               /\ top_neighbors[i].weight >= top_neighbors[j].weight
               /\ top_neighbors[i].weight = top_neighbors[j].weight =>
                    top_neighbors[i].nbr < top_neighbors[j].nbr

\* C3 (as the code has it): a query for an identifier that is no node prints
\* the not-found line, returns normally and yields no neighbours.
C3_NotFoundPrinted ==
    (Queried /\ skill_id \notin DOMAIN G.node) =>
        /\ exc = "none"
        /\ top_neighbors = << >>
        /\ printed = << Line("not_found", skill_id, 0) >>

\* C3 witness: such a query on a graph that has edges.
C3_Witness ==
    /\ Queried
    /\ skill_id \notin DOMAIN G.node
    /\ \E a \in DOMAIN G.node : Len(G.adj[a]) > 0

\* C3 as claimed: the query ends in a NotFoundError, nothing printed, no
\* neighbours.
C3_NotFoundError ==
    (Queried /\ skill_id \notin DOMAIN G.node) =>
        /\ exc = "NotFoundError"
        /\ top_neighbors = << >>
        /\ printed = << >>

\* the skill's region cells that are not missing, in record order
RegionsSeen(a) ==
    LET Mine(r) == r["Element Name"] = a /\ r["Region"] # NaN
    IN  Column(SelectSeq(records, Mine), "Region")

\* C4 as claimed: a node's region is the first non-missing region among the
\* skill's records in record order, and no region only when there is none.
C4_FirstNonEmptyRegion ==
    pc \in {"edges", "ui", "done", "crashed"} =>
        \A a \in InputSkills :
            /\ a \in DOMAIN G.node
            /\ HasRegionAttr(G.node[a])
            /\ IF "Region" \in columns /\ Len(RegionsSeen(a)) > 0
               THEN RegionAttr(G.node[a]) = RegionsSeen(a)[1]
               ELSE RegionAttr(G.node[a]) \in {None, NaN}

\* C5 (as the code has it): a query for a node of degree d yields
\* min(d, 10) neighbours and prints as many neighbour lines.
C5_TopTen ==
    (Queried /\ skill_id \in DOMAIN G.node) =>
        /\ Len(top_neighbors) = Min(Len(G.adj[skill_id]), TopK)
        /\ Len(printed) = Len(top_neighbors) + 2

\* C5 witness: a node of degree above 10 queried, 10 neighbours returned.
C5_Witness ==
    /\ Queried
    /\ skill_id \in DOMAIN G.node
    /\ Len(G.adj[skill_id]) > TopK
    /\ Len(top_neighbors) = TopK

\* C5 as claimed: for every k the caller may choose, min(d, k) neighbours.
C5_CallerChosenK ==
    (Queried /\ skill_id \in DOMAIN G.node) =>
        \A k \in 0..WideSkills :
            Len(top_neighbors) = Min(Len(G.adj[skill_id]), k)

\* C6: once the node loop has run, and through every edge added after it,
\* the nodes are exactly the distinct element_name values of the records.
C6_NodesAreInputSkills ==
    pc \in {"edges", "ui", "done", "crashed"} =>
        /\ DOMAIN G.node = InputSkills
        /\ DOMAIN G.adj = InputSkills

\* C6 witness: a finished graph with an edge and with a node of degree 0
\* whose skill shares no group with any other skill.
C6_Witness ==
    /\ GraphBuilt
    /\ \E a \in DOMAIN G.node : Len(G.adj[a]) > 0
    /\ \E a \in DOMAIN G.node :
         /\ Len(G.adj[a]) = 0
         /\ \A b \in InputSkills \ {a} : SharedGroups(a, b) = {}

\* C7: at every step no key of co_occurrence pairs a skill with itself and
\* no node is its own neighbour.
C7_NoSelfPairs ==
    /\ \A i \in 1..Len(co_occurrence) :
         co_occurrence[i].pair[1] # co_occurrence[i].pair[2]
    /\ \A a \in DOMAIN G.adj : a \notin NeighborsOf(G, a)

\* C7 witness: the loop has counted a group in which a skill has several
\* rows and found pairs in it, with another group still to come.
C7_Witness ==
    /\ pc = "group"
    /\ Len(todo) = 1
    /\ Len(co_occurrence) > 0
    /\ \E i, j \in 1..Len(records) :
         /\ i < j
         /\ records[i]["Element ID"] = records[j]["Element ID"]
         /\ records[i]["Element Name"] = records[j]["Element Name"]
         /\ records[i]["Element ID"] # Head(todo)

\* C8: the pair-to-count mapping the loop ends with is the one it ends with
\* for every order of the groups and for the frame with any two adjacent rows
\* exchanged (every reordering of the rows is a chain of such exchanges, each
\* of a frame that is itself explored).
C8_OrderIndependent ==
    Aggregated =>
        /\ \A order \in Orderings({ records[i]["Element ID"] : i \in 1..Len(records) }) :
             AsMapping(CountGroups(<< >>, records, order)) = AsMapping(co_occurrence)
        /\ \A i \in 1..(Len(records) - 1) :
             AsMapping(CountGroups(<< >>, SwapRows(records, i), GroupKeys(records)))
                 = AsMapping(co_occurrence)

\* C8 witness: two groups, and both a group order and a row exchange that
\* change the order in which the keys are inserted.
C8_Witness ==
    /\ Aggregated
    /\ Len(GroupKeys(records)) = 2
    /\ \E order \in Orderings({ records[i]["Element ID"] : i \in 1..Len(records) }) :
         CountGroups(<< >>, records, order) # co_occurrence
    /\ \E i \in 1..(Len(records) - 1) :
         /\ records[i]["Element ID"] = records[i + 1]["Element ID"]
         /\ CountGroups(<< >>, SwapRows(records, i), GroupKeys(records)) # co_occurrence

\* the distinct element_id values among the records of a region
JobTypesOf(region) ==
    { records[i]["Element ID"] :
        i \in { k \in 1..Len(records) : records[k]["Region"] = region } }

\* C9 as claimed: for a frame with a region column the insight function
\* completes and maps each region to its number of distinct element_id values.
C9_RegionJobTypeCounts ==
    (pc \in {"ui", "done", "crashed"} /\ "Region" \in columns) =>
        /\ exc = "none"
        /\ insights.kind = "counts"
        /\ insights.counts =
             { << r, Cardinality(JobTypesOf(r)) >> :
                 r \in { records[i]["Region"] : i \in 1..Len(records) } \ {NaN} }

====
